---- MODULE Spec2Model ----
(***************************************************************************)
(* Model of hui (src/main.rs): the history ingestion pipeline of `mod      *)
(* history` and the interactive session of `run_app` / `App`.              *)
(*                                                                         *)
(* A Rust String / Vec<u8> is a sequence of byte values (0..255), as it is *)
(* in memory; a History is a sequence of such strings.                     *)
(***************************************************************************)
EXTENDS Integers, Sequences, FiniteSets, TLC

VARIABLES
    \* ---- history::fetch / process_history ----
    hpc,            \* position inside process_history
    raw,            \* the bytes read from the history file (fs::read)
    history_type,   \* "zsh" or "bash"
    bytes,          \* the bytes handed to from_bytes
    entries,        \* the History handed to remove_empty
    history,        \* the History being normalised / returned
    \* ---- App and run_app ----
    pc,             \* position inside main / run_app
    full_history,   \* App.full_history
    items,          \* App.items.items
    selected,       \* App.items.state.selected()  (always Some(i): i)
    input,          \* App.input
    input_pos,      \* App.input_pos
    input_prev,     \* App.input_prev
    input_mode,     \* App.input_mode
    event,          \* the `event` local of the current loop iteration
    arm,            \* the arm of `match app.input_mode` the iteration takes
    ticked,         \* whether the tick check of the last iteration called on_tick
    edited,         \* whether input's text was edited since on_tick last ran
    reranked,       \* whether the last tick check's on_tick replaced app.items
    clipboard,      \* what was handed to clipboard.set_contents: <<>> or <<val>>
    res,            \* the value run_app returned: <<>> (running) or <<string>>
    stdout          \* the lines main printed after run_app returned

hvars == <<hpc, raw, history_type, bytes, entries, history>>
avars == <<pc, full_history, items, selected, input, input_pos, input_prev,
           input_mode, event, arm, ticked, edited, reranked, clipboard, res,
           stdout>>
vars == <<hvars, avars>>

-----------------------------------------------------------------------------
(* Bytes and text *)

NL == 10
SP == 32
COLON == 58
SEMI == 59
ZSH_META == 131
XOR_MASK == 32

\* b ^ 32 on a u8
Xor32(b) == IF (b \div XOR_MASK) % 2 = 1 THEN b - XOR_MASK ELSE b + XOR_MASK

IsCont(b) == b >= 128 /\ b <= 191

\* std::str::from_utf8(..).is_ok(), for the one- to four-byte forms
RECURSIVE ValidUtf8(_)
ValidUtf8(bs) ==
    IF bs = <<>> THEN TRUE
    ELSE LET b == bs[1]
             n == IF b < 128 THEN 1
                  ELSE IF b >= 194 /\ b <= 223 THEN 2
                  ELSE IF b >= 224 /\ b <= 239 THEN 3
                  ELSE IF b >= 240 /\ b <= 244 THEN 4
                  ELSE 0
         IN  /\ n > 0
             /\ Len(bs) >= n
             /\ \A k \in 2..n : IsCont(bs[k])
             /\ ValidUtf8(SubSeq(bs, n + 1, Len(bs)))

\* str::is_char_boundary(idx), idx a 0-based byte index
IsCharBoundary(s, idx) ==
    \/ idx = 0
    \/ idx = Len(s)
    \/ (idx < Len(s) /\ ~IsCont(s[idx + 1]))

\* number of bytes of the char that starts at 0-based byte index idx
CharLenAt(s, idx) ==
    LET b == s[idx + 1]
    IN  IF b < 128 THEN 1 ELSE IF b <= 223 THEN 2 ELSE IF b <= 239 THEN 3 ELSE 4

\* the number of chars of a valid string: its non-continuation bytes
CharCount(s) == Cardinality({k \in 1..Len(s) : ~IsCont(s[k])})

\* UnicodeWidthStr::width: the columns the text takes. A char of the CJK
\* blocks U+3000..U+9FFF (three bytes, lead byte 0xE3..0xE9) takes two
\* columns, the other printable chars here take one
Width(s) ==
    CharCount(s) + Cardinality({k \in 1..Len(s) : s[k] >= 227 /\ s[k] <= 233})

\* the chars of a valid string, each as its own byte sequence
RECURSIVE Chars(_)
Chars(s) ==
    IF s = <<>> THEN <<>>
    ELSE LET n == CharLenAt(s, 0)
         IN  <<SubSeq(s, 1, n)>> \o Chars(SubSeq(s, n + 1, Len(s)))

IsAt(s, pat, i) ==
    /\ i + Len(pat) - 1 <= Len(s)
    /\ \A k \in 1..Len(pat) : s[i + k - 1] = pat[k]

\* str::split(pattern) collected into a Vec
RECURSIVE Split(_, _)
Split(s, pat) ==
    IF \E i \in 1..Len(s) : IsAt(s, pat, i)
    THEN LET i == CHOOSE i \in 1..Len(s) :
                      IsAt(s, pat, i) /\ \A j \in 1..(i - 1) : ~IsAt(s, pat, j)
         IN  <<SubSeq(s, 1, i - 1)>> \o Split(SubSeq(s, i + Len(pat), Len(s)), pat)
    ELSE <<s>>

-----------------------------------------------------------------------------
(* mod history *)

Ok(v) == [ok |-> TRUE, val |-> v]
Panic == [ok |-> FALSE, val |-> <<>>]

RemoveAt(s, i) == SubSeq(s, 1, i - 1) \o SubSeq(s, i + 1, Len(s))

\* the body of unmetafy's loop for `index` (1-based here) and the rest of the
\* reverse range below it
RECURSIVE unmetafy_from(_, _)
unmetafy_from(bs, index) ==
    IF index = 0 THEN Ok(bs)
    ELSE IF bs[index] = ZSH_META
         THEN LET removed == RemoveAt(bs, index)
              IN  IF index > Len(removed)
                  THEN Panic   \* bytestring[index]: index out of bounds
                  ELSE unmetafy_from(
                         [removed EXCEPT ![index] = Xor32(removed[index])],
                         index - 1)
         ELSE unmetafy_from(bs, index - 1)

unmetafy(bytestring) == unmetafy_from(bytestring, Len(bytestring))

SplitPattern(htype) == IF htype = "zsh" THEN <<NL, COLON, SP>> ELSE <<NL>>

from_bytes(bs, htype) ==
    IF ~ValidUtf8(bs) THEN Panic   \* from_utf8(&bytes).unwrap()
    ELSE Ok(Split(bs, SplitPattern(htype)))

IsDigit(b) == b >= 48 /\ b <= 57
TsDigits == 10

\* does s, from 1-based position p, start with \d{10}:\d;
TsAt(s, p) ==
    /\ Len(s) >= p + TsDigits + 2
    /\ \A k \in 0..(TsDigits - 1) : IsDigit(s[p + k])
    /\ s[p + TsDigits] = COLON
    /\ IsDigit(s[p + TsDigits + 1])
    /\ s[p + TsDigits + 2] = SEMI

\* regex_first.replace(line, ""):  ^: \d{10}:\d;
StripFirst(line) ==
    IF Len(line) >= 2 /\ line[1] = COLON /\ line[2] = SP /\ TsAt(line, 3)
    THEN SubSeq(line, TsDigits + 6, Len(line))
    ELSE line

\* regex_rest.replace(line, ""):  ^\d{10}:\d;
StripRest(line) ==
    IF TsAt(line, 1) THEN SubSeq(line, TsDigits + 4, Len(line)) ELSE line

remove_timestamps(h) ==
    IF h = <<>> THEN Panic   \* history.get(0).unwrap()
    ELSE LET h1 == [h EXCEPT ![1] = StripFirst(h[1])]
         IN  Ok([k \in 1..Len(h1) |-> StripRest(h1[k])])

remove_empty(h) == SelectSeq(h, LAMBDA line : line # <<>>)

reverse(h) == [k \in 1..Len(h) |-> h[Len(h) + 1 - k]]

\* unique() that keeps the last of equal elements instead of the first
RECURSIVE remove_duplicates_keep_last(_)
remove_duplicates_keep_last(h) ==
    IF h = <<>> THEN <<>>
    ELSE LET rest == remove_duplicates_keep_last(Tail(h))
         IN  IF \E k \in 1..Len(rest) : rest[k] = h[1]
             THEN rest
             ELSE <<h[1]>> \o rest

\* Vec::dedup() in place of unique(): only consecutive repeats are dropped
RECURSIVE remove_duplicates_consecutive(_)
remove_duplicates_consecutive(h) ==
    IF Len(h) <= 1 THEN h
    ELSE LET front == remove_duplicates_consecutive(SubSeq(h, 1, Len(h) - 1))
         IN  IF h[Len(h)] = h[Len(h) - 1] THEN front ELSE Append(front, h[Len(h)])

\* itertools unique(): an element is kept unless an equal one came before it
RECURSIVE remove_duplicates(_)
remove_duplicates(h) ==
    IF h = <<>> THEN <<>>
    ELSE LET front == remove_duplicates(SubSeq(h, 1, Len(h) - 1))
             last == h[Len(h)]
         IN  IF \E k \in 1..Len(front) : front[k] = last
             THEN front
             ELSE Append(front, last)

process_history(hist, htype) ==
    LET um  == IF htype = "zsh" THEN unmetafy(hist) ELSE Ok(hist)
        fb  == IF um.ok THEN from_bytes(um.val, htype) ELSE Panic
        ts  == IF fb.ok
               THEN IF htype = "zsh" THEN remove_timestamps(fb.val) ELSE fb
               ELSE Panic
    IN  IF ts.ok
        THEN Ok(reverse(remove_duplicates(remove_empty(ts.val))))
        ELSE Panic

-----------------------------------------------------------------------------
(* history::process_history, one step per call of its pipeline *)

\* a timestamp prefix as zsh writes it, ": 1234567890:0;"
ZshStamp == <<COLON, SP, 49, 50, 51, 52, 53, 54, 55, 56, 57, 48, COLON, 48, SEMI>>

\* the pieces history files are put together from
Chunks ==
    { <<97, NL>>,                       \* a
      <<98, NL>>,                       \* b
      <<NL>>,                           \* an empty line
      <<97>>,                           \* a, no line end
      ZshStamp \o <<97, NL>>,           \* : 1234567890:0;a
      ZshStamp \o <<98, NL>>,           \* : 1234567890:0;b
      ZshStamp \o <<NL>>,               \* : 1234567890:0;
      <<ZSH_META, 65, NL>>,             \* Meta 'A' (unmetafied: a)
      <<ZSH_META>> }                    \* a lone Meta

MaxChunks == 3

RECURSIVE Files(_)
Files(n) ==
    IF n = 0 THEN {<<>>}
    ELSE LET shorter == Files(n - 1)
         IN  shorter \cup {f \o c : f \in shorter, c \in Chunks}

AppIdle ==
    /\ pc = "load"
    /\ full_history = <<>>
    /\ items = <<>>
    /\ selected = 0
    /\ input = <<>>
    /\ input_pos = 0
    /\ input_prev = <<>>
    /\ input_mode = "Normal"
    /\ event = [type |-> "none", code |-> "", ch |-> <<>>, region |-> "", press |-> FALSE]
    /\ arm = "Normal"
    /\ ticked = FALSE
    /\ edited = FALSE
    /\ reranked = FALSE
    /\ clipboard = <<>>
    /\ res = <<>>
    /\ stdout = <<>>

InitHist ==
    /\ hpc = "start"
    /\ raw \in Files(MaxChunks)
    /\ history_type \in {"bash", "zsh"}
    /\ bytes = <<>>
    /\ entries = <<>>
    /\ history = <<>>
    /\ AppIdle

\* unmetafy(history), zsh only
HUnmetafy ==
    /\ hpc = "start"
    /\ history_type = "zsh"
    /\ LET r == unmetafy(raw)
       IN  /\ bytes' = r.val
           /\ hpc' = IF r.ok THEN "from_bytes" ELSE "panic"
    /\ UNCHANGED <<raw, history_type, entries, history, avars>>

\* History::from_bytes(..)
HFromBytes ==
    /\ \/ hpc = "from_bytes"
       \/ hpc = "start" /\ history_type = "bash"
    /\ LET bs == IF history_type = "zsh" THEN bytes ELSE raw
           r  == from_bytes(bs, history_type)
       IN  /\ bytes' = bs
           /\ history' = r.val
           /\ entries' = IF r.ok /\ history_type = "bash" THEN r.val ELSE entries
           /\ hpc' = IF ~r.ok THEN "panic"
                     ELSE IF history_type = "zsh" THEN "remove_timestamps"
                     ELSE "remove_empty"
    /\ UNCHANGED <<raw, history_type, avars>>

\* remove_timestamps(..), zsh only
HRemoveTimestamps ==
    /\ hpc = "remove_timestamps"
    /\ LET r == remove_timestamps(history)
       IN  /\ history' = r.val
           /\ entries' = r.val
           /\ hpc' = IF r.ok THEN "remove_empty" ELSE "panic"
    /\ UNCHANGED <<raw, history_type, bytes, avars>>

HRemoveEmpty ==
    /\ hpc = "remove_empty"
    /\ history' = remove_empty(history)
    /\ hpc' = "remove_duplicates"
    /\ UNCHANGED <<raw, history_type, bytes, entries, avars>>

HRemoveDuplicates ==
    /\ hpc = "remove_duplicates"
    /\ history' = remove_duplicates(history)
    /\ hpc' = "reverse"
    /\ UNCHANGED <<raw, history_type, bytes, entries, avars>>

HReverse ==
    /\ hpc = "reverse"
    /\ history' = reverse(history)
    /\ hpc' = "done"
    /\ UNCHANGED <<raw, history_type, bytes, entries, avars>>

NextHist ==
    \/ HUnmetafy
    \/ HFromBytes
    \/ HRemoveTimestamps
    \/ HRemoveEmpty
    \/ HRemoveDuplicates
    \/ HReverse

SpecHist == InitHist /\ [][NextHist]_vars

-----------------------------------------------------------------------------
(* StatefulList *)

\* next with the bound off by one: i >= len in place of i >= len - 1
next_off_by_one(i, n) ==
    IF n = 0 THEN 0
    ELSE IF i >= n THEN 0
    ELSE i + 1

\* StatefulList::next: the index selected afterwards, i the one selected
\* before and n = items.len()
next(i, n) ==
    IF n = 0 THEN 0
    ELSE IF i >= n - 1 THEN 0
    ELSE i + 1

\* previous that stops at the first entry instead of wrapping
previous_no_wrap(i, n) ==
    IF n = 0 THEN 0
    ELSE IF i = 0 THEN 0
    ELSE i - 1

\* StatefulList::previous
previous(i, n) ==
    IF n = 0 THEN 0
    ELSE IF i = 0 THEN n - 1
    ELSE i - 1

\* selected_index that is one short of the selection
selected_index_one_short == IF selected > 0 THEN selected - 1 ELSE 0

\* StatefulList::selected_index
selected_index == selected

\* Vec::get(index): Some(val) as <<val>>, None as <<>>
Get(v, index) == IF index < Len(v) THEN <<v[index + 1]>> ELSE <<>>

-----------------------------------------------------------------------------
(* The fuzzy matcher and App::on_tick *)

Some(x) == [some |-> TRUE, score |-> x]
None == [some |-> FALSE, score |-> 0]

IsUpper(c) == Len(c) = 1 /\ c[1] >= 65 /\ c[1] <= 90
ToLower(c) == IF IsUpper(c) THEN <<c[1] + 32>> ELSE c

\* smart case: a pattern without an upper-case char matches regardless of case
CharEq(c, p, ignoreCase) == IF ignoreCase THEN ToLower(c) = ToLower(p) ELSE c = p

\* the leftmost alignment of pattern chars ps on choice chars cs, from
\* position from: the matched positions, or <<0>> when there is none
RECURSIVE Align(_, _, _, _)
Align(cs, ps, from, ic) ==
    IF ps = <<>> THEN <<>>
    ELSE IF \E k \in from..Len(cs) : CharEq(cs[k], ps[1], ic)
         THEN LET k == CHOOSE k \in from..Len(cs) :
                           /\ CharEq(cs[k], ps[1], ic)
                           /\ \A j \in from..(k - 1) : ~CharEq(cs[j], ps[1], ic)
                  rest == Align(cs, Tail(ps), k + 1, ic)
              IN  IF rest = <<0>> THEN <<0>> ELSE <<k>> \o rest
         ELSE <<0>>

ScoreMatch == 16
BonusHead == 8
BonusConsecutive == 4

\* SkimMatcherV2::fuzzy_match(choice, pattern): None when pattern is no
\* subsequence of choice; otherwise a score that rewards every matched char,
\* a match at the head of choice and consecutive runs, and charges for the
\* chars skipped
fuzzy_match(choice, pattern) ==
    IF pattern = <<>> THEN Some(0)
    ELSE LET cs == Chars(choice)
             ps == Chars(pattern)
             ic == \A k \in 1..Len(ps) : ~IsUpper(ps[k])
             al == Align(cs, ps, 1, ic)
         IN  IF al = <<0>> THEN None
             ELSE Some(ScoreMatch * Len(al)
                       + (IF al[1] = 1 THEN BonusHead ELSE 0)
                       + BonusConsecutive
                           * Cardinality({k \in 2..Len(al) : al[k] = al[k - 1] + 1})
                       - (al[Len(al)] - Len(al)))

\* map(.. unwrap_or(0)) in place of filter_map: entries without a match stay
RECURSIVE Matches_keep_all(_, _)
Matches_keep_all(h, pattern) ==
    IF h = <<>> THEN <<>>
    ELSE <<[score |-> fuzzy_match(h[1], pattern).score, s |-> h[1]]>>
             \o Matches_keep_all(Tail(h), pattern)

\* full_history.iter().filter_map(..).collect(): the (score, s) pairs
RECURSIVE Matches(_, _)
Matches(h, pattern) ==
    IF h = <<>> THEN <<>>
    ELSE LET m == fuzzy_match(h[1], pattern)
             rest == Matches(Tail(h), pattern)
         IN  IF m.some THEN <<[score |-> m.score, s |-> h[1]]>> \o rest ELSE rest

\* the insertion of an unstable sort: x goes in front of its equals
RECURSIVE InsertByScore_before_equals(_, _)
InsertByScore_before_equals(sorted, x) ==
    IF sorted = <<>> THEN <<x>>
    ELSE IF x.score >= sorted[1].score THEN <<x>> \o sorted
    ELSE <<sorted[1]>> \o InsertByScore_before_equals(Tail(sorted), x)

\* insert x into a sequence sorted by descending score, behind its equals
RECURSIVE InsertByScore(_, _)
InsertByScore(sorted, x) ==
    IF sorted = <<>> THEN <<x>>
    ELSE IF x.score > sorted[1].score THEN <<x>> \o sorted
    ELSE <<sorted[1]>> \o InsertByScore(Tail(sorted), x)

\* matches.sort_by(|a, b| score_b.cmp(score_a)): a stable sort
RECURSIVE SortByScore(_)
SortByScore(ms) ==
    IF ms = <<>> THEN <<>>
    ELSE InsertByScore(SortByScore(SubSeq(ms, 1, Len(ms) - 1)), ms[Len(ms)])

\* sorted_matches of on_tick
Ranker(h, pattern) ==
    LET sorted == SortByScore(Matches(h, pattern))
    IN  [k \in 1..Len(sorted) |-> sorted[k].s]

\* on_tick, were its new StatefulList to keep the selection of the old one
on_tick_keep_selection ==
    IF input_mode = "Editing"
    THEN /\ IF input_prev # input
            THEN /\ items' = Ranker(full_history, input)
                 /\ selected' = IF selected < Len(items') THEN selected ELSE 0
                 /\ reranked' = TRUE
            ELSE /\ UNCHANGED <<items, selected>>
                 /\ reranked' = FALSE
         /\ input_prev' = input
    ELSE /\ UNCHANGED <<items, selected, input_prev>>
         /\ reranked' = FALSE

\* on_tick without the comparison of input_prev with input: every tick in
\* Editing re-ranks
on_tick_no_debounce ==
    IF input_mode = "Editing"
    THEN /\ items' = Ranker(full_history, input)
         /\ selected' = 0
         /\ reranked' = TRUE
         /\ input_prev' = input
    ELSE /\ UNCHANGED <<items, selected, input_prev>>
         /\ reranked' = FALSE

\* App::on_tick
on_tick ==
    IF input_mode = "Editing"
    THEN /\ IF input_prev # input
            THEN /\ items' = Ranker(full_history, input)
                 /\ selected' = 0      \* StatefulList::with_items
                 /\ reranked' = TRUE
            ELSE /\ UNCHANGED <<items, selected>>
                 /\ reranked' = FALSE
         /\ input_prev' = input
    ELSE /\ UNCHANGED <<items, selected, input_prev>>
         /\ reranked' = FALSE

-----------------------------------------------------------------------------
(* Events *)

Key(code, ch, press) ==
    [type |-> "key", code |-> code, ch |-> ch, region |-> "", press |-> press]
Mouse(kind, region) ==
    [type |-> "mouse", code |-> kind, ch |-> <<>>, region |-> region, press |-> FALSE]
Resize == [type |-> "resize", code |-> "", ch |-> <<>>, region |-> "", press |-> FALSE]
NoEvent == [type |-> "none", code |-> "", ch |-> <<>>, region |-> "", press |-> FALSE]

SLASH == <<47>>
CHAR_Q == <<113>>
WIDE_CHAR == <<230, 151, 165>>
\* the chars a key press can carry: '/', q and U+65E5, a char of three bytes
\* that is two columns wide
TypedChars == {SLASH, CHAR_Q, WIDE_CHAR}

KeyCodes == {"Down", "Up", "Enter", "Left", "Right", "Backspace", "Esc", "Tab"}

\* chunks[0] is the list, chunks[1] the input box; a click lands in one of
\* them or in neither
Regions == {"list", "input", "other"}

PressEvents ==
    {Key(c, <<>>, TRUE) : c \in KeyCodes} \cup {Key("Char", ch, TRUE) : ch \in TypedChars}
ReleaseEvents == {Key("Enter", <<>>, FALSE), Key("Char", CHAR_Q, FALSE)}
MouseEvents ==
    {Mouse("LeftDown", r) : r \in Regions}
        \cup {Mouse(k, "list") : k \in {"ScrollUp", "ScrollDown", "Moved"}}

IsPress(e, code) == e.type = "key" /\ e.press /\ e.code = code
IsChar(e, ch) == IsPress(e, "Char") /\ e.ch = ch

\* the events the Normal arm has no effect for
NormalIgnoredEvents ==
    {e \in PressEvents :
        /\ e.code \notin {"Down", "Up", "Enter"}
        /\ ~IsChar(e, SLASH)
        /\ ~IsChar(e, CHAR_Q)}
      \cup ReleaseEvents
      \cup {e \in MouseEvents : e.code \notin {"LeftDown", "ScrollUp", "ScrollDown"}}
      \cup {Resize, NoEvent}

\* the events the Editing arm has no effect for
EditingIgnoredEvents ==
    {Key("Tab", <<>>, TRUE)}
      \cup ReleaseEvents
      \cup {e \in MouseEvents : e.code # "LeftDown"}
      \cup {Resize, NoEvent}

-----------------------------------------------------------------------------
(* main and run_app *)

\* the history files of the sessions explored
SessionFiles ==
    { [kind |-> "bash", raw |-> <<>>],
      \* q, /q, //, q: one per line
      [kind |-> "bash", raw |-> <<113, NL, 47, 113, NL, 47, 47, NL, 113, NL>>],
      \* U+65E5 (its byte 0x97 metafied), then q, each with its timestamp
      [kind |-> "zsh",
       raw |-> ZshStamp \o <<230, ZSH_META, 183, 165, NL>> \o ZshStamp \o <<113>>] }

\* main up to the first iteration of run_app's loop: history::fetch, App::new
Init ==
    /\ \E f \in SessionFiles :
          /\ raw = f.raw
          /\ history_type = f.kind
          /\ process_history(f.raw, f.kind).ok
          /\ history = process_history(f.raw, f.kind).val
    /\ bytes = IF history_type = "zsh" THEN unmetafy(raw).val ELSE raw
    /\ entries = IF history_type = "zsh"
                 THEN remove_timestamps(from_bytes(bytes, history_type).val).val
                 ELSE from_bytes(bytes, history_type).val
    /\ hpc = "done"
    /\ pc = "loop"
    /\ full_history = history
    /\ items = history
    /\ selected = 0
    /\ input = <<>>
    /\ input_pos = 0
    /\ input_prev = <<>>
    /\ input_mode = "Normal"
    /\ event = NoEvent
    /\ arm = input_mode
    /\ ticked = FALSE
    /\ edited = FALSE
    /\ reranked = FALSE
    /\ clipboard = <<>>
    /\ res = <<>>
    /\ stdout = <<>>

\* what every arm does: take event e in mode input_mode and go on to the
\* tick check of line 335
Dispatch(e) ==
    /\ event' = e
    /\ arm' = input_mode
    /\ UNCHANGED <<hvars, full_history, ticked, reranked, stdout>>

Polled(e) == Dispatch(e) /\ pc' = "tick"

\* the largest input (in chars) a session types
MaxInput == 2

----
(* InputMode::Normal *)

NormalMouseDown ==
    /\ pc = "loop" /\ input_mode = "Normal"
    /\ \E r \in Regions :
          /\ Polled(Mouse("LeftDown", r))
          /\ IF r = "input"
             THEN /\ input' = <<>>
                  /\ input_pos' = 0
                  /\ input_mode' = "Editing"
             ELSE UNCHANGED <<input, input_pos, input_mode>>
    /\ UNCHANGED <<items, selected, input_prev, edited, clipboard, res>>

NormalScrollUp ==
    /\ pc = "loop" /\ input_mode = "Normal"
    /\ Polled(Mouse("ScrollUp", "list"))
    /\ selected' = previous(selected, Len(items))
    /\ UNCHANGED <<items, input, input_pos, input_prev, input_mode, edited,
                   clipboard, res>>

NormalScrollDown ==
    /\ pc = "loop" /\ input_mode = "Normal"
    /\ Polled(Mouse("ScrollDown", "list"))
    /\ selected' = next(selected, Len(items))
    /\ UNCHANGED <<items, input, input_pos, input_prev, input_mode, edited,
                   clipboard, res>>

\* the '/' arm without its input.drain(..)
NormalSlash_keep_query ==
    /\ pc = "loop" /\ input_mode = "Normal"
    /\ Polled(Key("Char", SLASH, TRUE))
    /\ input_pos' = 0
    /\ input_mode' = "Editing"
    /\ UNCHANGED <<items, selected, input, input_prev, edited, clipboard, res>>

NormalSlash ==
    /\ pc = "loop" /\ input_mode = "Normal"
    /\ Polled(Key("Char", SLASH, TRUE))
    /\ input' = <<>>
    /\ input_pos' = 0
    /\ input_mode' = "Editing"
    /\ UNCHANGED <<items, selected, input_prev, edited, clipboard, res>>

NormalQuit ==
    /\ pc = "loop" /\ input_mode = "Normal"
    /\ Dispatch(Key("Char", CHAR_Q, TRUE))
    /\ res' = << <<>> >>
    /\ pc' = "returned"
    /\ UNCHANGED <<items, selected, input, input_pos, input_prev, input_mode,
                   edited, clipboard>>

NormalDown ==
    /\ pc = "loop" /\ input_mode = "Normal"
    /\ Polled(Key("Down", <<>>, TRUE))
    /\ selected' = next(selected, Len(items))
    /\ UNCHANGED <<items, input, input_pos, input_prev, input_mode, edited,
                   clipboard, res>>

NormalUp ==
    /\ pc = "loop" /\ input_mode = "Normal"
    /\ Polled(Key("Up", <<>>, TRUE))
    /\ selected' = previous(selected, Len(items))
    /\ UNCHANGED <<items, input, input_pos, input_prev, input_mode, edited,
                   clipboard, res>>

\* "Copied to clipboard: "
CopiedPrefix ==
    <<67, 111, 112, 105, 101, 100, 32, 116, 111, 32, 99, 108, 105, 112, 98,
      111, 97, 114, 100, 58, 32>>

NormalEnter ==
    /\ pc = "loop" /\ input_mode = "Normal"
    /\ Dispatch(Key("Enter", <<>>, TRUE))
    /\ LET index == selected_index
           got == Get(items, index)
           val == IF got # <<>> THEN got[1] ELSE <<>>
       IN  /\ clipboard' = <<val>>
           /\ res' = <<CopiedPrefix \o val>>
    /\ pc' = "returned"
    /\ UNCHANGED <<items, selected, input, input_pos, input_prev, input_mode,
                   edited>>

NormalIgnored ==
    /\ pc = "loop" /\ input_mode = "Normal"
    /\ \E e \in NormalIgnoredEvents : Polled(e)
    /\ UNCHANGED <<items, selected, input, input_pos, input_prev, input_mode,
                   edited, clipboard, res>>

----
(* InputMode::Editing *)

EditingMouseDown ==
    /\ pc = "loop" /\ input_mode = "Editing"
    /\ \E r \in Regions :
          /\ Polled(Mouse("LeftDown", r))
          /\ input_mode' = IF r = "list" THEN "Normal" ELSE input_mode
    /\ UNCHANGED <<items, selected, input, input_pos, input_prev, edited,
                   clipboard, res>>

\* the Enter | Up | Down arm, were Up and Down to move the selection as well
EditingStop_and_move ==
    /\ pc = "loop" /\ input_mode = "Editing"
    /\ \E c \in {"Enter", "Up", "Down"} :
          /\ Polled(Key(c, <<>>, TRUE))
          /\ selected' = IF c = "Down" THEN next(selected, Len(items))
                         ELSE IF c = "Up" THEN previous(selected, Len(items))
                         ELSE selected
    /\ input_mode' = "Normal"
    /\ UNCHANGED <<items, input, input_pos, input_prev, edited, clipboard, res>>

\* KeyCode::Enter | KeyCode::Up | KeyCode::Down
EditingStop ==
    /\ pc = "loop" /\ input_mode = "Editing"
    /\ \E c \in {"Enter", "Up", "Down"} : Polled(Key(c, <<>>, TRUE))
    /\ input_mode' = "Normal"
    /\ UNCHANGED <<items, selected, input, input_pos, input_prev, edited,
                   clipboard, res>>

EditingLeft ==
    /\ pc = "loop" /\ input_mode = "Editing"
    /\ Polled(Key("Left", <<>>, TRUE))
    /\ input_pos' = IF input_pos > 0 THEN input_pos - 1 ELSE input_pos
    /\ UNCHANGED <<items, selected, input, input_prev, input_mode, edited,
                   clipboard, res>>

EditingRight ==
    /\ pc = "loop" /\ input_mode = "Editing"
    /\ Polled(Key("Right", <<>>, TRUE))
    /\ input_pos' = IF input_pos + 1 > Width(input) THEN Width(input)
                    ELSE input_pos + 1
    /\ UNCHANGED <<items, selected, input, input_prev, input_mode, edited,
                   clipboard, res>>

\* String::insert(idx, c)
Insert(s, idx, c) == SubSeq(s, 1, idx) \o c \o SubSeq(s, idx + 1, Len(s))

\* String::remove(idx): the char that starts at idx is taken out
Remove(s, idx) ==
    SubSeq(s, 1, idx) \o SubSeq(s, idx + CharLenAt(s, idx) + 1, Len(s))

\* the Char arm, were it to re-rank at once instead of at the next tick
EditingChar_rerank_now ==
    /\ pc = "loop" /\ input_mode = "Editing"
    /\ \E c \in TypedChars :
          /\ CharCount(input) < MaxInput
          /\ Dispatch(Key("Char", c, TRUE))
          /\ IF input_pos <= Len(input) /\ IsCharBoundary(input, input_pos)
             THEN /\ input' = Insert(input, input_pos, c)
                  /\ input_pos' = input_pos + 1
                  /\ edited' = TRUE
                  /\ pc' = "tick"
                  /\ items' = Ranker(full_history, input')
                  /\ selected' = 0
             ELSE /\ pc' = "panicked"
                  /\ UNCHANGED <<input, input_pos, edited, items, selected>>
    /\ UNCHANGED <<input_prev, input_mode, clipboard, res>>

EditingChar ==
    /\ pc = "loop" /\ input_mode = "Editing"
    /\ \E c \in TypedChars :
          /\ CharCount(input) < MaxInput
          /\ Dispatch(Key("Char", c, TRUE))
          /\ IF input_pos <= Len(input) /\ IsCharBoundary(input, input_pos)
             THEN /\ input' = Insert(input, input_pos, c)
                  /\ input_pos' = input_pos + 1
                  /\ edited' = TRUE
                  /\ pc' = "tick"
             ELSE \* String::insert panics: idx is not on a char boundary
                  /\ pc' = "panicked"
                  /\ UNCHANGED <<input, input_pos, edited>>
    /\ UNCHANGED <<items, selected, input_prev, input_mode, clipboard, res>>

EditingBackspace ==
    /\ pc = "loop" /\ input_mode = "Editing"
    /\ Dispatch(Key("Backspace", <<>>, TRUE))
    /\ IF input_pos > 0 /\ input_pos - 1 < Width(input)
       THEN IF input_pos - 1 < Len(input) /\ IsCharBoundary(input, input_pos - 1)
            THEN /\ input' = Remove(input, input_pos - 1)
                 /\ input_pos' = input_pos - 1
                 /\ edited' = TRUE
                 /\ pc' = "tick"
            ELSE \* String::remove panics: idx is not on a char boundary
                 /\ pc' = "panicked"
                 /\ UNCHANGED <<input, input_pos, edited>>
       ELSE /\ pc' = "tick"
            /\ UNCHANGED <<input, input_pos, edited>>
    /\ UNCHANGED <<items, selected, input_prev, input_mode, clipboard, res>>

\* the Esc arm without its reset of app.items
EditingEsc_keep_items ==
    /\ pc = "loop" /\ input_mode = "Editing"
    /\ Polled(Key("Esc", <<>>, TRUE))
    /\ input' = <<>>
    /\ input_pos' = 0
    /\ input_mode' = "Normal"
    /\ UNCHANGED <<items, selected, input_prev, edited, clipboard, res>>

EditingEsc ==
    /\ pc = "loop" /\ input_mode = "Editing"
    /\ Polled(Key("Esc", <<>>, TRUE))
    /\ input' = <<>>
    /\ input_pos' = 0
    /\ items' = full_history
    /\ selected' = 0           \* StatefulList::with_items
    /\ input_mode' = "Normal"
    /\ UNCHANGED <<input_prev, edited, clipboard, res>>

EditingIgnored ==
    /\ pc = "loop" /\ input_mode = "Editing"
    /\ \E e \in EditingIgnoredEvents : Polled(e)
    /\ UNCHANGED <<items, selected, input, input_pos, input_prev, input_mode,
                   edited, clipboard, res>>

----
(* the tick check at the end of an iteration, and main after run_app *)

\* back to the top of the loop: the iteration's `event` goes out of scope
EndIteration ==
    /\ pc' = "loop"
    /\ event' = NoEvent
    /\ arm' = input_mode

\* last_tick.elapsed() >= tick_rate
TickFire ==
    /\ pc = "tick"
    /\ on_tick
    /\ ticked' = TRUE
    /\ edited' = FALSE
    /\ EndIteration
    /\ UNCHANGED <<hvars, full_history, input, input_pos, input_mode,
                   clipboard, res, stdout>>

\* last_tick.elapsed() < tick_rate: only when poll returned before its timeout
TickSkip ==
    /\ pc = "tick"
    /\ event # NoEvent
    /\ ticked' = FALSE
    /\ reranked' = FALSE
    /\ EndIteration
    /\ UNCHANGED <<hvars, full_history, items, selected, input, input_pos,
                   input_prev, input_mode, edited, clipboard, res, stdout>>

\* match res { Ok(resp) => if resp != "" { println!(..) } }
MainPrint ==
    /\ pc = "returned"
    /\ stdout' = IF res[1] # <<>> THEN <<res[1]>> ELSE <<>>
    /\ pc' = "exit"
    /\ UNCHANGED <<hvars, full_history, items, selected, input, input_pos,
                   input_prev, input_mode, event, arm, ticked, edited,
                   reranked, clipboard, res>>

Next ==
    \/ NormalMouseDown
    \/ NormalScrollUp
    \/ NormalScrollDown
    \/ NormalSlash
    \/ NormalQuit
    \/ NormalDown
    \/ NormalUp
    \/ NormalEnter
    \/ NormalIgnored
    \/ EditingMouseDown
    \/ EditingStop
    \/ EditingLeft
    \/ EditingRight
    \/ EditingChar
    \/ EditingBackspace
    \/ EditingEsc
    \/ EditingIgnored
    \/ TickFire
    \/ TickSkip
    \/ MainPrint

Spec == Init /\ [][Next]_vars

-----------------------------------------------------------------------------
(* Properties of the session *)

Ended == pc \in {"returned", "exit"}
Entry == items[selected + 1]

\* C1: in every state of the session the selection designates an element of
\* items when items is non-empty (0 <= selected <= len - 1), and is 0 when
\* items is empty.
C1_CursorInRange ==
    IF items = <<>> THEN selected = 0
    ELSE selected >= 0 /\ selected <= Len(items) - 1

\* a filtered view whose last entry was reached by moving down
C1_Witness ==
    /\ pc = "tick" /\ arm = "Normal" /\ IsPress(event, "Down")
    /\ items # full_history
    /\ Len(items) >= 2
    /\ selected = Len(items) - 1

\* C2, as claimed: Enter in Normal mode on a non-empty view ends the session,
\* and the value run_app returns and the value handed to the clipboard are
\* both exactly the entry at the selection.
C2_ReturnsEntryItself ==
    (Ended /\ IsPress(event, "Enter") /\ items # <<>>)
        => (res = <<Entry>> /\ clipboard = <<Entry>>)

\* C2, amended: Enter in Normal mode on a non-empty view ends the session; the
\* clipboard is handed exactly the entry at the selection, and run_app returns
\* "Copied to clipboard: " followed by that entry.
C2_ConfirmCopiesEntry ==
    [][(pc = "loop" /\ input_mode = "Normal" /\ IsPress(event', "Enter")
            /\ items # <<>>)
        => (/\ pc' = "returned"
            /\ clipboard' = <<Entry>>
            /\ res' = <<CopiedPrefix \o Entry>>)]_vars

\* Enter on a filtered view with the selection moved off the first entry
C2_Witness ==
    /\ pc = "returned" /\ IsPress(event, "Enter")
    /\ items # full_history
    /\ selected > 0
    /\ clipboard = <<Entry>>

\* C3, as claimed: after every tick that runs on_tick in Editing mode, items
\* is the ranking of full_history for the current input.
C3_ViewDerivedAfterEditingTick ==
    (pc = "loop" /\ ticked /\ input_mode = "Editing")
        => items = Ranker(full_history, input)

\* C4, as claimed: when input's text was edited since on_tick last ran, the
\* next on_tick leaves items the ranking of full_history for input, also when
\* Editing was left before that tick.
C4_EditIsRankedAtNextTick ==
    [][(pc = "tick" /\ edited /\ pc' = "loop" /\ ticked')
        => items' = Ranker(full_history, input')]_vars

CancelPost ==
    /\ input_mode = "Normal"
    /\ input = <<>>
    /\ input_pos = 0
    /\ items = full_history

\* C5: Esc in Editing mode yields Normal mode, an empty input, input_pos 0 and
\* items = full_history; tick checks and polls that time out keep it so.
C5_CancelResets ==
    [][/\ (pc = "loop" /\ input_mode = "Editing" /\ IsPress(event', "Esc"))
            => CancelPost'
       /\ (CancelPost /\ (pc = "tick" \/ (pc = "loop" /\ event' = NoEvent)))
            => CancelPost']_vars

\* Esc taken in Editing mode after a filter had been applied
C5_Witness ==
    /\ pc = "tick" /\ arm = "Editing" /\ IsPress(event, "Esc")
    /\ input_prev # <<>>
    /\ full_history # <<>>
    /\ CancelPost

\* C6, as claimed: Up or Down in Editing mode stops editing and moves the
\* selection by one, with wraparound, in the same step.
C6_MoveStopsAndMoves ==
    [][(pc = "loop" /\ input_mode = "Editing")
        => /\ IsPress(event', "Down")
              => (input_mode' = "Normal"
                    /\ selected' = IF Len(items) = 0 THEN 0
                                   ELSE (selected + 1) % Len(items))
           /\ IsPress(event', "Up")
              => (input_mode' = "Normal"
                    /\ selected' = IF Len(items) = 0 THEN 0
                                   ELSE (selected + Len(items) - 1) % Len(items))]_vars

\* C6, amended: Up or Down in Editing mode stops editing and leaves the
\* selection and the view as they were; the move is not performed.
C6_MoveOnlyStopsEditing ==
    [][(pc = "loop" /\ input_mode = "Editing"
            /\ (IsPress(event', "Down") \/ IsPress(event', "Up")))
        => (input_mode' = "Normal" /\ selected' = selected /\ items' = items)]_vars

\* Down taken in Editing mode on a view of several entries
C6_Witness ==
    /\ pc = "tick" /\ arm = "Editing" /\ IsPress(event, "Down")
    /\ input_mode = "Normal"
    /\ Len(items) >= 2

\* C7, as claimed: Enter in Normal mode on an empty view hands nothing to the
\* clipboard and no "Copied" line is printed.
C7_EmptyConfirmWritesNothing ==
    (Ended /\ IsPress(event, "Enter") /\ items = <<>>)
        => (clipboard = <<>> /\ (pc = "exit" => stdout = <<>>))

RECURSIVE NextTimes(_, _, _)
NextTimes(i, n, k) == IF k = 0 THEN i ELSE NextTimes(next(i, n), n, k - 1)

\* C8: on a view of length N >= 1, from every index, next applied N times
\* returns to that index, next from N - 1 yields 0 and previous from 0 yields
\* N - 1; on an empty view next and previous yield 0.
C8_Wraparound ==
    LET n == Len(items)
    IN  IF n = 0
        THEN next(selected, n) = 0 /\ previous(selected, n) = 0
        ELSE /\ \A i \in 0..(n - 1) : NextTimes(i, n, n) = i
             /\ next(n - 1, n) = 0
             /\ previous(0, n) = n - 1

\* Up from the first entry of a view of several entries: the last is selected
C8_Witness ==
    /\ pc = "tick" /\ arm = "Normal" /\ IsPress(event, "Up")
    /\ Len(items) >= 2
    /\ selected = Len(items) - 1

\* C11: whenever on_tick re-ranks with an empty input, the view it builds is
\* full_history, every entry present and in full_history's order.
C11_EmptyQueryIdentity ==
    (pc = "loop" /\ reranked /\ input = <<>>) => items = full_history

\* the filter box reopened after a non-empty filter had been ranked: the tick
\* re-ranked with the empty input
C11_Witness ==
    /\ pc = "loop" /\ reranked /\ input_mode = "Editing"
    /\ input = <<>>
    /\ Len(full_history) >= 2
    /\ items = full_history

\* C12: the view a re-rank builds for a non-empty input holds exactly the
\* entries of full_history the matcher scores, each once, and no entry of it
\* stands before one with a higher score.
C12_RankedViewExactAndSorted ==
    (pc = "loop" /\ reranked /\ input # <<>>)
        => /\ \A i \in 1..Len(full_history) :
                 LET e == full_history[i]
                     n == Cardinality({k \in 1..Len(items) : items[k] = e})
                 IN  IF fuzzy_match(e, input).some THEN n = 1 ELSE n = 0
           /\ \A k \in 1..Len(items) :
                 \E i \in 1..Len(full_history) : full_history[i] = items[k]
           /\ \A k \in 1..(Len(items) - 1) :
                 fuzzy_match(items[k], input).score
                     >= fuzzy_match(items[k + 1], input).score

\* a re-rank that dropped an entry and put a better match first
C12_Witness ==
    /\ pc = "loop" /\ reranked
    /\ input # <<>>
    /\ Len(items) >= 2
    /\ Len(items) < Len(full_history)
    /\ items # SelectSeq(full_history, LAMBDA e : fuzzy_match(e, input).some)
    /\ fuzzy_match(items[1], input).score > fuzzy_match(items[2], input).score

\* C13, as claimed: in every state the edit cursor is a character offset into
\* the query: 0 <= input_pos <= the number of chars of input.
C13_EditCursorWithinQuery ==
    input_pos >= 0 /\ input_pos <= CharCount(input)

InLoop == pc \in {"loop", "tick"}

\* C14, as claimed: run_app's loop is left only by Enter or 'q' taken in
\* Normal mode, never by a tick, a mouse event or an event taken in Editing
\* mode; 'q' returns no entry and hands nothing to the clipboard.
C14_OnlyConfirmOrQuitEnds ==
    [][/\ (InLoop /\ ~InLoop')
            => /\ pc = "loop" /\ input_mode = "Normal"
               /\ IsPress(event', "Enter") \/ IsChar(event', CHAR_Q)
       /\ (pc = "loop" /\ input_mode = "Normal" /\ IsChar(event', CHAR_Q))
            => /\ pc' = "returned"
               /\ res' = << <<>> >>
               /\ clipboard' = clipboard]_vars

\* the position of entry e in full_history, 0 when it is not there
PosInCorpus(e) ==
    IF \E i \in 1..Len(full_history) : full_history[i] = e
    THEN CHOOSE i \in 1..Len(full_history) : full_history[i] = e
    ELSE 0

\* C15: in every state items holds entries of full_history only, none twice,
\* so 0 <= len(items) <= len(full_history); and full_history is the History
\* loaded at startup, unchanged.
C15_ViewWithinCorpus ==
    /\ \A k \in 1..Len(items) : PosInCorpus(items[k]) # 0
    /\ \A j, k \in 1..Len(items) : items[j] = items[k] => j = k
    /\ Len(items) <= Len(full_history)
    /\ full_history = history

\* back in Normal mode on a view that is a part of full_history in another
\* order
C15_Witness ==
    /\ pc = "loop" /\ input_mode = "Normal"
    /\ Len(items) < Len(full_history)
    /\ \E j, k \in 1..Len(items) :
          j < k /\ PosInCorpus(items[j]) > PosInCorpus(items[k])

\* C17: a tick taken in Normal mode, or in Editing mode with input equal to
\* input_prev, leaves the items and the selection as they were.
C17_DebounceFrame ==
    [][(/\ pc = "tick" /\ pc' = "loop" /\ ticked'
        /\ input_mode = "Normal" \/ input = input_prev)
           => /\ items' = items
              /\ selected' = selected]_vars

\* a tick in Editing mode that found input = input_prev and left a selection
\* other than the first alone
C17_Witness ==
    /\ pc = "loop" /\ ticked /\ ~reranked
    /\ input_mode = "Editing"
    /\ input = input_prev
    /\ selected > 0

\* the events behind the actions C18 lists, in the mode they are taken in
IsClick(e) == e.type = "mouse" /\ e.code = "LeftDown"
StartFilter(e) == IsChar(e, SLASH) \/ (IsClick(e) /\ e.region = "input")
ConfirmFilter(e) ==
    \/ \E c \in {"Enter", "Up", "Down"} : IsPress(e, c)
    \/ IsClick(e) /\ e.region = "list"
EditEvent(e) ==
    \/ \E c \in {"Char", "Backspace", "Left", "Right"} : IsPress(e, c)
    \/ ConfirmFilter(e)
FrameEvent(e, mode) ==
    \/ IsClick(e)
    \/ mode = "Normal" /\ StartFilter(e)
    \/ mode = "Editing" /\ EditEvent(e)

\* C18: the items change only at a tick that re-ranks or at Esc in Editing
\* mode; start-filter, a typed char, Backspace, Left, Right, confirm-filter and
\* mouse clicks leave the items and the selection as they were, and
\* confirm-filter leaves input and input_pos as they were too.
C18_ViewReplacedOnlyByTickOrCancel ==
    [][/\ items' # items
           => \/ pc = "tick" /\ reranked'
              \/ pc = "loop" /\ input_mode = "Editing" /\ IsPress(event', "Esc")
       /\ (pc = "loop" /\ FrameEvent(event', input_mode))
           => /\ items' = items
              /\ selected' = selected
       /\ (pc = "loop" /\ input_mode = "Editing" /\ ConfirmFilter(event'))
           => /\ input' = input
              /\ input_pos' = input_pos
              /\ input_mode' = "Normal"]_vars

\* confirm-filter has just been taken on a filtered view with a typed query
C18_Witness ==
    /\ pc = "tick" /\ arm = "Editing"
    /\ ConfirmFilter(event)
    /\ input_mode = "Normal"
    /\ input # <<>> /\ input_pos > 0
    /\ Len(items) >= 1 /\ Len(items) < Len(full_history)

\* C19: in Normal mode start-filter ('/' or a click in the input box) leaves
\* the mode Editing, input empty and input_pos 0, whatever input was; no other
\* event taken in Normal mode changes input.
C19_StartFilterClearsQuery ==
    [][(pc = "loop" /\ input_mode = "Normal")
           => IF StartFilter(event')
              THEN /\ input_mode' = "Editing"
                   /\ input' = <<>>
                   /\ input_pos' = 0
              ELSE input' = input]_vars

\* start-filter has just been taken with the view still filtered by a query
\* that was typed before
C19_Witness ==
    /\ pc = "tick" /\ arm = "Normal"
    /\ StartFilter(event)
    /\ input_mode = "Editing"
    /\ input = <<>> /\ input_pos = 0
    /\ input_prev # <<>>
    /\ Len(items) < Len(full_history)

\* the number of bytes the first n chars of s take
CharOffset(s, n) ==
    IF n >= CharCount(s) THEN Len(s)
    ELSE (CHOOSE k \in 1..Len(s) :
              /\ ~IsCont(s[k])
              /\ Cardinality({j \in 1..k : ~IsCont(s[j])}) = n + 1) - 1

\* C20, as claimed: a char typed in Editing mode goes in behind the first
\* input_pos chars of input, the chars before and after it keep their order,
\* input grows by one char and input_pos by one.
C20_InsertAtEditCursor ==
    [][(pc = "loop" /\ input_mode = "Editing" /\ IsPress(event', "Char"))
           => /\ pc' = "tick"
              /\ input' = Insert(input, CharOffset(input, input_pos), event'.ch)
              /\ CharCount(input') = CharCount(input) + 1
              /\ input_pos' = input_pos + 1]_vars

\* s without its n-th char
RemoveChar(s, n) ==
    SubSeq(s, 1, CharOffset(s, n - 1)) \o SubSeq(s, CharOffset(s, n) + 1, Len(s))

\* C21, as claimed: Backspace in Editing mode with input_pos > 0 takes out the
\* char right before the edit cursor, nothing else, and decrements input_pos;
\* with input_pos = 0 it leaves input and input_pos as they were.
C21_DeleteBeforeEditCursor ==
    [][(pc = "loop" /\ input_mode = "Editing" /\ IsPress(event', "Backspace"))
           => /\ pc' = "tick"
              /\ IF input_pos > 0
                 THEN /\ input' = RemoveChar(input, input_pos)
                      /\ CharCount(input') = CharCount(input) - 1
                      /\ input_pos' = input_pos - 1
                 ELSE /\ input' = input
                      /\ input_pos' = input_pos]_vars

\* C22: every step that replaces the items, a tick that re-ranks or Esc in
\* Editing mode, leaves the selection at index 0, whatever it was before.
C22_ReplacementResetsSelection ==
    [][(\/ pc = "tick" /\ reranked'
        \/ pc = "loop" /\ input_mode = "Editing" /\ IsPress(event', "Esc")
        \/ items' # items)
           => selected' = 0]_vars

\* a tick has just re-ranked to a view that lacks the corpus' first entries,
\* whichever was selected before
C22_Witness ==
    /\ pc = "loop" /\ ticked /\ reranked
    /\ input_mode = "Editing"
    /\ selected = 0
    /\ Len(items) >= 1
    /\ \A k \in 1..Len(items) : PosInCorpus(items[k]) > 1

-----------------------------------------------------------------------------
(* Properties of process_history *)

\* C9: the History process_history returns holds no two equal strings and no
\* empty string, for zsh and for bash.
C9_CorpusDistinctNonEmpty ==
    hpc = "done"
        => /\ \A i, j \in 1..Len(history) : history[i] = history[j] => i = j
           /\ \A i \in 1..Len(history) : history[i] # <<>>

\* a history with a repeated command and an empty entry, more than one kept
C9_Witness ==
    /\ hpc = "done"
    /\ \E i, j \in 1..Len(entries) : i < j /\ entries[i] = entries[j] /\ entries[i] # <<>>
    /\ \E i \in 1..Len(entries) : entries[i] = <<>>
    /\ Len(history) >= 2

\* the positions of entries (oldest first) that hold the first occurrence of a
\* non-empty command
FirstOccurrences(es) ==
    {i \in 1..Len(es) : es[i] # <<>> /\ \A j \in 1..(i - 1) : es[j] # es[i]}

\* C10: the History returned is the reverse of the entries kept at the first
\* (oldest) occurrence of each non-empty command: its k-th string from the end
\* is the entry at the k-th such position.
C10_DedupBeforeReverse ==
    hpc = "done"
        => LET keep == FirstOccurrences(entries)
               n == Len(history)
           IN  /\ n = Cardinality(keep)
               /\ \A p \in keep :
                     history[n + 1 - Cardinality({q \in keep : q <= p})] = entries[p]

\* cmd1, cmd2, cmd1 (here a, b, a) yields cmd2, cmd1
C10_Witness ==
    /\ hpc = "done"
    /\ Len(entries) >= 3
    /\ SubSeq(entries, 1, 3) = << <<97>>, <<98>>, <<97>> >>
    /\ history = << <<98>>, <<97>> >>

\* the positions of bs that hold no meta marker, and what the claim has
\* unmetafy return: the bytes at those positions in order, the one right
\* behind a marker XORed with 32
Unmarked(bs) == {p \in 1..Len(bs) : bs[p] # ZSH_META}
Unescaped(bs) ==
    [k \in 1..Cardinality(Unmarked(bs)) |->
        LET p == CHOOSE p \in Unmarked(bs) :
                     Cardinality({q \in Unmarked(bs) : q <= p}) = k
        IN  IF p > 1 /\ bs[p - 1] = ZSH_META THEN Xor32(bs[p]) ELSE bs[p]]

\* C16, as claimed: for every byte sequence, one ending in the meta marker
\* and ones with consecutive markers included, unmetafy returns normally, its
\* result has the input's length less the number of markers, every marker is
\* removed and the byte behind each marker is XORed with 32.
C16_UnmetafyTotal ==
    [][(hpc = "start" /\ history_type = "zsh")
        => /\ hpc' = "from_bytes"
           /\ Len(bytes') = Cardinality(Unmarked(raw))
           /\ bytes' = Unescaped(raw)]_vars

=============================================================================
